---- MODULE Spec2Model ----
(***************************************************************************)
(* Model of the request/response correlation broker of the MCP server for  *)
(* Adobe Premiere: WebSocketServer (src/server/websocket_server.py) and    *)
(* the premiere_action wrapper around it (src/server/tools.py).            *)
(*                                                                         *)
(* One asyncio event loop runs every coroutine, so an action is the code   *)
(* between two suspension points (await) of one coroutine.                 *)
(***************************************************************************)
EXTENDS Integers, Sequences, FiniteSets, TLC

\* ------------------------------------------------------------- bounds
\* Number of websocket connections (peers) that may be open at once.
NumPeers == 2

Peers == 1..NumPeers

\* The wrapper invocations (calls) of one behaviour.  Calls share state only
\* through the two tables keyed by identifier, so two calls in flight show
\* every way one call can touch another.
Calls == {1, 2}

\* Message identifiers.  uuid4 values are modelled as the fresh numbers
\* 1, 2, ...; 0 stands for "no identifier".
Ids == 0..Cardinality(Calls)

\* ------------------------------------------------------------- values
\* Payloads a peer may put under "result" and "error".
Results == {"r1"}
Errors == {"e1"}

\* A text frame as the peer wrote it.  form says what json.loads makes of
\* it: "invalid" (not JSON), "array" (JSON, but no object), "object".
\* keys are the keys of the object; hashable tells whether the value under
\* "id" can be a dict key (a JSON string or number) or not (a JSON array).
Frame(form, keys, hashable, id, success, result, error) ==
    [form |-> form, keys |-> keys, hashable |-> hashable, id |-> id,
     success |-> success, result |-> result, error |-> error]

\* The value standing for "no message" (an absent dict entry, None).
NoMsg == Frame("none", {}, TRUE, 0, FALSE, "", "")

\* The responses a peer can send for identifier i, in the wire shape
\* {id, result} or {id, error}.
ResponsesFor(i) ==
    { Frame("object", {"id", "result"}, TRUE, i, FALSE, r, "") : r \in Results }
    \cup { Frame("object", {"id", "error"}, TRUE, i, FALSE, "", e) : e \in Errors }

\* The frames a peer can send that name identifier i: the responses and an
\* object with "id" alone.
FramesFor(i) ==
    ResponsesFor(i) \cup { Frame("object", {"id"}, TRUE, i, FALSE, "", "") }

\* The frames that name no identifier usable as a key: text that is not
\* JSON, a JSON array, an object without "id", an object whose "id" is an
\* array.
OtherFrames ==
    { Frame("invalid", {}, TRUE, 0, FALSE, "", ""),
      Frame("array", {}, TRUE, 0, FALSE, "", ""),
      Frame("object", {"result"}, TRUE, 0, FALSE, "r1", ""),
      Frame("object", {"id", "result"}, FALSE, 0, FALSE, "r1", "") }

\* What a frame is, read off the text the peer wrote.
FrameClass(raw) ==
    IF raw.form = "invalid" THEN "invalid"
    ELSE IF raw.form = "array" THEN "array"
    ELSE IF "id" \notin raw.keys THEN "noid"
    ELSE IF "result" \notin raw.keys /\ "error" \notin raw.keys THEN "nopayload"
    ELSE IF ~raw.hashable THEN "unhashable"
    ELSE "response"

\* ------------------------------------------------------------- state
VARIABLES
    clients,          \* self.clients: the open connections, oldest first
    handlers,         \* the connections whose _client_handler is running
    response_events,  \* self.response_events: id -> "absent", "clear", "set"
    message_dict,     \* self.message_dict: id -> stored message, or NoMsg
    nextId,           \* the next fresh identifier uuid4 will hand out
    pc,               \* where each call stands
    cid,              \* the identifier each call generated (0: none)
    ret,              \* what send_instruction returned or raised
    out,              \* what the wrapper returned
    sent,             \* the frames handed to a connection's send, in order
    last,             \* the response the last step handled, or NoMsg
    lastPeer,         \* the connection that delivered it, or 0
    inv               \* the tool invocation each call stems from, or NoInv

vars == <<clients, handlers, response_events, message_dict, nextId, pc, cid,
          ret, out, sent, last, lastPeer, inv>>

\* ------------------------------------------------------------- helpers
\* Outcome of send_instruction as the wrapper sees it.
Ret(kind, exc, msg) == [kind |-> kind, exc |-> exc, msg |-> msg]
NoRet == Ret("none", "", NoMsg)

\* The dict the wrapper returns; raised tells that it raised instead.
Out(raised, success, response, message) ==
    [raised |-> raised, success |-> success, response |-> response,
     message |-> message]
NoOut == Out(FALSE, FALSE, "", "")

\* list.remove(x): the list without its first x.
RECURSIVE Remove(_, _)
Remove(s, x) ==
    IF s = <<>> THEN <<>>
    ELSE IF Head(s) = x THEN Tail(s)
    ELSE <<Head(s)>> \o Remove(Tail(s), x)

Members(s) == { s[i] : i \in 1..Len(s) }

\* A variant of CurrentTarget that takes the oldest connection.
CurrentTarget_Oldest(cl) == cl[1]

\* self.clients[-1]
CurrentTarget(cl) == cl[Len(cl)]

\* json.loads(message): ok is FALSE when it raises JSONDecodeError.
json_loads(raw) ==
    IF raw.form = "invalid" THEN [ok |-> FALSE, data |-> NoMsg]
    ELSE [ok |-> TRUE, data |-> raw]

\* isinstance(data, dict)
IsDict(data) == data.form = "object"

\* A variant of IsResponse that asks for "id" alone.
IsResponse_IdOnly(data) == "id" \in data.keys

\* "id" in data and ("result" in data or "error" in data)
IsResponse(data) ==
    "id" \in data.keys /\ ("result" \in data.keys \/ "error" \in data.keys)

\* A variant of Catches without the except Exception clause.
Catches_JsonOnly(exc) == exc = "JSONDecodeError"

\* The except clauses of _handle_message: JSONDecodeError, then Exception.
Catches(exc) == exc \in {"JSONDecodeError", "KeyError", "TypeError"}

\* self.message_dict[data["id"]] = data
StoreMessage(md, data) == [md EXCEPT ![data.id] = data]

\* A variant of SetEvent that wakes every registered waiter.
SetEvent_All(ev, id) ==
    [j \in DOMAIN ev |-> IF ev[j] = "absent" THEN "absent" ELSE "set"]

\* self.response_events[data["id"]].set()
SetEvent(ev, id) == [ev EXCEPT ![id] = "set"]

\* The body of _handle_message run on one frame: the tables it leaves and
\* the exception it ends with ("" when it returns normally).
HandleBody(raw, md, ev) ==
    LET parsed == json_loads(raw)
        data == parsed.data
    IN  IF ~parsed.ok
        THEN [md |-> md, ev |-> ev, exc |-> "JSONDecodeError"]
        ELSE IF ~IsDict(data)
        THEN [md |-> md, ev |-> ev, exc |-> ""]
        ELSE IF ~IsResponse(data)
        THEN [md |-> md, ev |-> ev, exc |-> ""]
        ELSE IF ~data.hashable
        THEN [md |-> md, ev |-> ev, exc |-> "TypeError"]
        ELSE IF ev[data.id] = "absent"
        THEN [md |-> StoreMessage(md, data), ev |-> ev, exc |-> "KeyError"]
        ELSE [md |-> StoreMessage(md, data), ev |-> SetEvent(ev, data.id),
              exc |-> ""]

\* self.response_events[message_id] = asyncio.Event()
RegisterEvent(ev, id) == [ev EXCEPT ![id] = "clear"]

\* A variant of PopEvent that leaves the entry in the table.
PopEvent_Keeps(ev, id) == ev

\* self.response_events.pop(message_id, None)
PopEvent(ev, id) == [ev EXCEPT ![id] = "absent"]

\* A variant of StoredResponse that returns None.
StoredResponse_None(md, id) == NoMsg

\* return self.message_dict[message_id]
StoredResponse(md, id) == md[id]

\* The wrapper's processing of a value send_instruction returned.
Normalize(response) ==
    IF response.form = "none"
    THEN Out(FALSE, FALSE, "", "No response from plugin")
    ELSE IF "success" \in response.keys /\ response.success
    THEN Out(FALSE, TRUE,
             IF "result" \in response.keys THEN response.result ELSE "{}", "")
    ELSE Out(FALSE, FALSE, "",
             IF "error" \in response.keys THEN response.error
             ELSE "Unknown error")

\* A variant of Normalized without the except Exception clause.
Normalized_NoCatch(r) ==
    IF r.kind = "value" THEN Normalize(r.msg)
    ELSE IF r.exc = "TimeoutError"
    THEN Out(FALSE, FALSE, "", "Timeout waiting for response from plugin")
    ELSE Out(TRUE, FALSE, "", "")

\* The wrapper's except clauses around the call of send_instruction.  (The
\* TimeoutError of asyncio.wait_for is the builtin one from Python 3.11 on;
\* before, the except Exception clause answers it.)
Normalized(r) ==
    IF r.kind = "value" THEN Normalize(r.msg)
    ELSE IF r.exc = "TimeoutError"
    THEN Out(FALSE, FALSE, "", "Timeout waiting for response from plugin")
    ELSE Out(FALSE, FALSE, "", "Error in func: " \o r.exc)

\* ------------------------------------------------------------- tools
\* The three tools register_premiere_tools registers: manage_project,
\* manage_sequence, manage_media.
Tools == {"project", "sequence", "media"}

\* A catalog entry: the action name its function hands to send_instruction
\* and the parameters of the function that have no default.
Entry(action, required) == [action |-> action, required |-> required]

\* The static methods of PremiereProjectActions, PremiereSequenceActions
\* and PremiereMediaActions, by name.
Catalog(tool) ==
    IF tool = "project"
    THEN [get_active |-> Entry("getActiveProject", {}),
          open_project |-> Entry("openProject", {"path"}),
          create_project |-> Entry("createProject", {"path"}),
          save_project |-> Entry("saveProject", {}),
          save_project_as |-> Entry("saveProjectAs", {"path"}),
          close_project |-> Entry("closeProject", {})]
    ELSE IF tool = "sequence"
    THEN [get_active |-> Entry("getActiveSequence", {}),
          create_sequence |-> Entry("createSequence", {"name"}),
          create_sequence_from_media |->
              Entry("createSequenceFromMedia", {"name", "clip_project_items"}),
          set_active_sequence |-> Entry("setActiveSequence", {"sequence_id"}),
          get_sequence_list |-> Entry("getSequenceList", {}),
          get_player_position |-> Entry("getPlayerPosition", {}),
          set_player_position |-> Entry("setPlayerPosition", {"position"})]
    ELSE [import_files |-> Entry("importFiles", {"file_paths"}),
          import_sequences |->
              Entry("importSequences", {"project_path", "sequence_ids"}),
          import_ae_comps |-> Entry("importAEComps", {"aep_path", "comp_names"}),
          import_all_ae_comps |-> Entry("importAllAEComps", {"aep_path"})]

\* Names every class answers to getattr with something that is no catalog
\* entry: the docstring (a str), object.__init__, type.mro.
ClassAttributes == {"__doc__", "__init__", "mro"}

\* The action strings a caller passes.
ActionStrings ==
    {"get_active", "GET_ACTIVE", "open_project", "import_files",
     "Import_Files", "bogus", "__doc__"}

\* action.lower()
Lower(a) ==
    CASE a = "GET_ACTIVE" -> "get_active"
      [] a = "Import_Files" -> "import_files"
      [] OTHER -> a

\* The keyword arguments of a tool call besides action: direct are the
\* names passed as keywords; nested tells what is passed under the keyword
\* "kwargs": nothing ("absent"), a dict ("mapping", with the keys names),
\* or a value that is no dict ("other").
Kw(direct, nested, names) ==
    [direct |-> direct, nested |-> nested, names |-> names]

Keywords ==
    { Kw({}, "absent", {}),
      Kw({"path"}, "absent", {}),
      Kw({}, "mapping", {}),
      Kw({}, "mapping", {"path"}),
      Kw({}, "mapping", {"file_paths"}),
      Kw({}, "other", {}) }

\* A tool invocation; NoInv stands for a call of a wrapped function that
\* did not come through a tool.
Invocation(tool, action, kw) == [tool |-> tool, action |-> action, kw |-> kw]
Invocations ==
    { Invocation(t, a, k) : t \in Tools, a \in ActionStrings, k \in Keywords }
NoInv == Invocation("", "", Kw({}, "absent", {}))

\* getattr(<actions class of the tool>, method_name, None)
GetAttr(tool, name) ==
    IF name \in DOMAIN Catalog(tool) THEN "entry"
    ELSE IF name \in ClassAttributes THEN "attribute"
    ELSE "none"

\* action_method(**kwargs["kwargs"]) up to the call of the wrapper: the
\* exception it raises, "" if none.  kwargs["kwargs"] is evaluated first
\* (KeyError), then the call is made (TypeError for a value after ** that is
\* no mapping, and for an attribute that is no catalog entry).
ToolException(i) ==
    IF i.kw.nested = "absent" THEN "KeyError"
    ELSE IF i.kw.nested = "other" THEN "TypeError"
    ELSE IF GetAttr(i.tool, Lower(i.action)) = "attribute" THEN "TypeError"
    ELSE ""

\* The tool reaches the wrapper of a catalog entry.
WrapperRuns(i) ==
    /\ GetAttr(i.tool, Lower(i.action)) = "entry"
    /\ ToolException(i) = ""

\* await func(*args, **kwargs) in the wrapper: the function raises TypeError
\* if a parameter without default is missing.  Of a function that did not
\* come through a tool nothing is known: it may raise or return.
FuncMayRaise(i) ==
    \/ i = NoInv
    \/ /\ i # NoInv /\ WrapperRuns(i)
       /\ ~(Catalog(i.tool)[Lower(i.action)].required \subseteq i.kw.names)

FuncMayReturn(i) ==
    \/ i = NoInv
    \/ /\ i # NoInv /\ WrapperRuns(i)
       /\ Catalog(i.tool)[Lower(i.action)].required \subseteq i.kw.names

\* The action name the function returns (send_instruction's default "" for
\* a function that did not come through a tool).
ActionName(i) ==
    IF i = NoInv THEN "" ELSE Catalog(i.tool)[Lower(i.action)].action

\* ------------------------------------------------------------- Init
Init ==
    /\ clients = <<>>
    /\ handlers = {}
    /\ response_events = [i \in Ids |-> "absent"]
    /\ message_dict = [i \in Ids |-> NoMsg]
    /\ nextId = 1
    /\ pc = [c \in Calls |-> "idle"]
    /\ cid = [c \in Calls |-> 0]
    /\ ret = [c \in Calls |-> NoRet]
    /\ out = [c \in Calls |-> NoOut]
    /\ sent = <<>>
    /\ last = NoMsg
    /\ lastPeer = 0
    /\ inv = [c \in Calls |-> NoInv]

\* ------------------------------------------------------------- connections
\* _client_handler up to its read loop: self.clients.append(websocket)
client_connect(p) ==
    /\ p \notin handlers
    /\ handlers' = handlers \cup {p}
    /\ clients' = Append(clients, p)
    /\ last' = NoMsg /\ lastPeer' = 0
    /\ UNCHANGED <<response_events, message_dict, nextId, pc, cid, ret, out,
                   sent, inv>>

\* A variant of client_disconnect that gives up the calls whose instruction
\* went to the connection: it pops their events.
client_disconnect_drops_pending(p) ==
    /\ p \in handlers
    /\ handlers' = handlers \ {p}
    /\ clients' = Remove(clients, p)
    /\ response_events' =
          [i \in Ids |->
              IF \E k \in 1..Len(sent) : sent[k].id = i /\ sent[k].peer = p
              THEN "absent" ELSE response_events[i]]
    /\ last' = NoMsg /\ lastPeer' = 0
    /\ UNCHANGED <<message_dict, nextId, pc, cid, ret, out, sent, inv>>

\* A variant of client_disconnect whose handler ends without the finally
\* clause: the connection stays in the list.
client_disconnect_no_finally(p) ==
    /\ p \in handlers
    /\ handlers' = handlers \ {p}
    /\ last' = NoMsg /\ lastPeer' = 0
    /\ UNCHANGED <<clients, response_events, message_dict, nextId, pc, cid,
                   ret, out, sent, inv>>

\* _client_handler leaving its read loop (end of stream or
\* ConnectionClosed): finally self.clients.remove(websocket)
client_disconnect(p) ==
    /\ p \in handlers
    /\ handlers' = handlers \ {p}
    /\ clients' = Remove(clients, p)
    /\ last' = NoMsg /\ lastPeer' = 0
    /\ UNCHANGED <<response_events, message_dict, nextId, pc, cid, ret, out,
                   sent, inv>>

\* The frames a peer can send now: identifiers are random, so peers only
\* know those that were sent to one of them.
Inbound ==
    OtherFrames \cup UNION { FramesFor(sent[k].id) : k \in 1..Len(sent) }

\* A variant of handle_message that takes a response only from the
\* connection the instruction with that identifier was sent to.
handle_message_affine(p, raw) ==
    /\ p \in handlers
    /\ LET own == \E k \in 1..Len(sent) :
                      sent[k].id = raw.id /\ sent[k].peer = p
           h == IF FrameClass(raw) = "response" /\ ~own
                THEN [md |-> message_dict, ev |-> response_events, exc |-> ""]
                ELSE HandleBody(raw, message_dict, response_events)
       IN  /\ message_dict' = h.md
           /\ response_events' = h.ev
    /\ last' = IF FrameClass(raw) = "response" THEN raw ELSE NoMsg
    /\ lastPeer' = IF FrameClass(raw) = "response" THEN p ELSE 0
    /\ UNCHANGED <<clients, handlers, nextId, pc, cid, ret, out, sent, inv>>

\* One round of the read loop of the _client_handler of connection p:
\* _handle_message on one frame.  _handle_message makes no use of its
\* websocket argument; the connection matters only if an exception leaves
\* _handle_message: it leaves the read loop too, the finally clause removes
\* the connection and the handler ends.
handle_message(p, raw) ==
    /\ p \in handlers
    /\ LET h == HandleBody(raw, message_dict, response_events)
           escaped == h.exc # "" /\ ~Catches(h.exc)
       IN  /\ message_dict' = h.md
           /\ response_events' = h.ev
           /\ clients' = IF escaped THEN Remove(clients, p) ELSE clients
           /\ handlers' = IF escaped THEN handlers \ {p} ELSE handlers
    /\ last' = IF FrameClass(raw) = "response" THEN raw ELSE NoMsg
    /\ lastPeer' = IF FrameClass(raw) = "response" THEN p ELSE 0
    /\ UNCHANGED <<nextId, pc, cid, ret, out, sent, inv>>

\* ------------------------------------------------------------- calls
Finish(c, r) ==
    /\ ret' = [ret EXCEPT ![c] = r]
    /\ out' = [out EXCEPT ![c] = Normalized(r)]
    /\ pc' = [pc EXCEPT ![c] = "done"]

\* Calls are started in the order of their numbers (the numbers only name
\* them).
MayStart(c) == pc[c] = "idle" /\ \A d \in Calls : d < c => pc[d] # "idle"

\* The wrapped function raises on its arguments (a missing path, say):
\* the wrapper's except Exception clause answers.
wrapper_mapping_fails(c) ==
    /\ MayStart(c)
    /\ FuncMayRaise(inv[c])
    /\ Finish(c, Ret("raise", "TypeError", NoMsg))
    /\ last' = NoMsg /\ lastPeer' = 0
    /\ UNCHANGED <<clients, handlers, response_events, message_dict, nextId,
                   cid, sent, inv>>

\* A variant of send_instruction_no_client that makes the identifier before
\* it looks at the clients.
send_instruction_id_first(c) ==
    /\ MayStart(c)
    /\ FuncMayReturn(inv[c])
    /\ clients = <<>>
    /\ cid' = [cid EXCEPT ![c] = nextId]
    /\ nextId' = nextId + 1
    /\ Finish(c, Ret("value", "", NoMsg))
    /\ last' = NoMsg /\ lastPeer' = 0
    /\ UNCHANGED <<clients, handlers, response_events, message_dict, sent,
                   inv>>

\* send_instruction with no client connected: return ""
send_instruction_no_client(c) ==
    /\ MayStart(c)
    /\ FuncMayReturn(inv[c])
    /\ clients = <<>>
    /\ Finish(c, Ret("value", "", NoMsg))
    /\ last' = NoMsg /\ lastPeer' = 0
    /\ UNCHANGED <<clients, handlers, response_events, message_dict, nextId,
                   cid, sent, inv>>

\* send_instruction up to await target_client.send: the frame is handed to
\* the newest connection and the coroutine is suspended in send.
send_instruction(c) ==
    /\ MayStart(c)
    /\ FuncMayReturn(inv[c])
    /\ clients # <<>>
    /\ cid' = [cid EXCEPT ![c] = nextId]
    /\ nextId' = nextId + 1
    /\ sent' = Append(sent, [id |-> nextId, peer |-> CurrentTarget(clients),
                             call |-> c, action |-> ActionName(inv[c])])
    /\ pc' = [pc EXCEPT ![c] = "sending"]
    /\ last' = NoMsg /\ lastPeer' = 0
    /\ UNCHANGED <<clients, handlers, response_events, message_dict, ret, out,
                   inv>>

\* A variant of send_instruction_send_fails that has registered the event
\* before the send and leaves it in the table when the send raises.
send_instruction_send_fails_leaks(c) ==
    /\ MayStart(c)
    /\ FuncMayReturn(inv[c])
    /\ clients # <<>>
    /\ cid' = [cid EXCEPT ![c] = nextId]
    /\ nextId' = nextId + 1
    /\ response_events' = RegisterEvent(response_events, nextId)
    /\ Finish(c, Ret("raise", "ConnectionClosed", NoMsg))
    /\ last' = NoMsg /\ lastPeer' = 0
    /\ UNCHANGED <<clients, handlers, message_dict, sent, inv>>

\* send_instruction when target_client.send raises (the connection is
\* closing): the exception is logged and raised again, nothing was written.
send_instruction_send_fails(c) ==
    /\ MayStart(c)
    /\ FuncMayReturn(inv[c])
    /\ clients # <<>>
    /\ cid' = [cid EXCEPT ![c] = nextId]
    /\ nextId' = nextId + 1
    /\ Finish(c, Ret("raise", "ConnectionClosed", NoMsg))
    /\ last' = NoMsg /\ lastPeer' = 0
    /\ UNCHANGED <<clients, handlers, response_events, message_dict, sent,
                   inv>>

\* send returns; wait_for_response registers the event and suspends in
\* asyncio.wait_for(event.wait(), timeout).
wait_for_response(c) ==
    /\ pc[c] = "sending"
    /\ response_events' = RegisterEvent(response_events, cid[c])
    /\ pc' = [pc EXCEPT ![c] = "waiting"]
    /\ last' = NoMsg /\ lastPeer' = 0
    /\ UNCHANGED <<clients, handlers, message_dict, nextId, cid, ret, out,
                   sent, inv>>

\* The timeout of asyncio.wait_for elapses before the event is set:
\* wait_for_response ends with TimeoutError, its finally clause pops the
\* event, and the wrapper's except TimeoutError clause answers.
TimerMayFire(c) == pc[c] = "waiting" /\ response_events[cid[c]] = "clear"

wait_times_out(c) ==
    /\ TimerMayFire(c)
    /\ response_events' = PopEvent(response_events, cid[c])
    /\ Finish(c, Ret("raise", "TimeoutError", NoMsg))
    /\ last' = NoMsg /\ lastPeer' = 0
    /\ UNCHANGED <<clients, handlers, message_dict, nextId, cid, sent, inv>>

\* The event was set: wait_for_response returns the stored message, its
\* finally clause pops the event, the wrapper normalizes the response.
wait_returns(c) ==
    /\ pc[c] = "waiting"
    /\ response_events[cid[c]] = "set"
    /\ response_events' = PopEvent(response_events, cid[c])
    /\ Finish(c, Ret("value", "", StoredResponse(message_dict, cid[c])))
    /\ last' = NoMsg /\ lastPeer' = 0
    /\ UNCHANGED <<clients, handlers, message_dict, nextId, cid, sent, inv>>

\* ------------------------------------------------------------- Spec
Next ==
    \/ \E p \in Peers : client_connect(p)
    \/ \E p \in Peers : client_disconnect(p)
    \/ \E p \in Peers, raw \in Inbound : handle_message(p, raw)
    \/ \E c \in Calls : wrapper_mapping_fails(c)
    \/ \E c \in Calls : send_instruction_no_client(c)
    \/ \E c \in Calls : send_instruction(c)
    \/ \E c \in Calls : send_instruction_send_fails(c)
    \/ \E c \in Calls : wait_for_response(c)
    \/ \E c \in Calls : wait_returns(c)
    \/ \E c \in Calls : wait_times_out(c)

Spec == Init /\ [][Next]_vars

\* ------------------------------------------------------------- tool calls
\* The calls that come through a tool.  The tools add no state of their
\* own to the broker, so one invocation at a time shows all they do.
ToolCalls == {1}

\* manage_project, manage_sequence, manage_media when getattr finds nothing
\* under the lower-cased action: the "Unknown ... action" result.
tool_unknown_action(c) ==
    /\ MayStart(c)
    /\ inv[c] # NoInv
    /\ GetAttr(inv[c].tool, Lower(inv[c].action)) = "none"
    /\ pc' = [pc EXCEPT ![c] = "done"]
    /\ out' = [out EXCEPT ![c] =
                  Out(FALSE, FALSE, "",
                      "Unknown " \o inv[c].tool \o " action: "
                          \o inv[c].action)]
    /\ last' = NoMsg /\ lastPeer' = 0
    /\ UNCHANGED <<clients, handlers, response_events, message_dict, nextId,
                   cid, ret, sent, inv>>

\* The tool when getattr finds something and action_method(**kwargs["kwargs"])
\* raises before the wrapper runs: the exception leaves the tool.
tool_raises(c) ==
    /\ MayStart(c)
    /\ inv[c] # NoInv
    /\ GetAttr(inv[c].tool, Lower(inv[c].action)) # "none"
    /\ ToolException(inv[c]) # ""
    /\ pc' = [pc EXCEPT ![c] = "done"]
    /\ out' = [out EXCEPT ![c] = Out(TRUE, FALSE, "", ToolException(inv[c]))]
    /\ last' = NoMsg /\ lastPeer' = 0
    /\ UNCHANGED <<clients, handlers, response_events, message_dict, nextId,
                   cid, ret, sent, inv>>

\* The responses a plugin can send for identifier i that carry a success
\* flag beside the result or the error.
FlaggedResponsesFor(i) ==
    { Frame("object", {"id", "success", "result"}, TRUE, i, TRUE, r, "") :
        r \in Results }
    \cup { Frame("object", {"id", "success", "error"}, TRUE, i, FALSE, "", e) :
             e \in Errors }

ToolInbound ==
    Inbound \cup UNION { FlaggedResponsesFor(sent[k].id) : k \in 1..Len(sent) }

\* The state before a tool is invoked, for every invocation.
ToolInit ==
    /\ clients = <<>>
    /\ handlers = {}
    /\ response_events = [i \in Ids |-> "absent"]
    /\ message_dict = [i \in Ids |-> NoMsg]
    /\ nextId = 1
    /\ pc = [c \in Calls |-> "idle"]
    /\ cid = [c \in Calls |-> 0]
    /\ ret = [c \in Calls |-> NoRet]
    /\ out = [c \in Calls |-> NoOut]
    /\ sent = <<>>
    /\ last = NoMsg
    /\ lastPeer = 0
    /\ inv \in { f \in [Calls -> Invocations \cup {NoInv}] :
                    \A c \in Calls : f[c] # NoInv <=> c \in ToolCalls }

ToolNext ==
    \/ \E p \in Peers : client_connect(p)
    \/ \E p \in Peers : client_disconnect(p)
    \/ \E p \in Peers, raw \in ToolInbound : handle_message(p, raw)
    \/ \E c \in ToolCalls : tool_unknown_action(c)
    \/ \E c \in ToolCalls : tool_raises(c)
    \/ \E c \in ToolCalls : wrapper_mapping_fails(c)
    \/ \E c \in ToolCalls : send_instruction_no_client(c)
    \/ \E c \in ToolCalls : send_instruction(c)
    \/ \E c \in ToolCalls : send_instruction_send_fails(c)
    \/ \E c \in ToolCalls : wait_for_response(c)
    \/ \E c \in ToolCalls : wait_returns(c)
    \/ \E c \in ToolCalls : wait_times_out(c)

ToolSpec == ToolInit /\ [][ToolNext]_vars

\* ------------------------------------------------------------- fairness
\* The event loop resumes a coroutine whose await has finished, and the
\* timer of asyncio.wait_for fires unless the event is set first.
Fairness ==
    \A c \in Calls :
        /\ WF_vars(wait_for_response(c))
        /\ WF_vars(wait_returns(c))
        /\ WF_vars(wait_times_out(c))

LiveSpec == Spec /\ Fairness

\* ------------------------------------------------------------- claims
Timeout(c) ==
    pc[c] = "done" /\ ret[c].kind = "raise" /\ ret[c].exc = "TimeoutError"
Answered(c) == pc[c] = "done" /\ ret[c].kind = "value" /\ ret[c].msg # NoMsg

C2_NoLostResponse ==
    [][\A c \in Calls :
        (pc[c] = "waiting" /\ pc'[c] = "done" /\ ret'[c].kind = "raise")
            => message_dict[cid[c]] = NoMsg
      ]_vars

\* C3 (at most once), as the claim states it: a response frame naming an
\* identifier whose event is already set changes no broker state.
C3_SecondIsNoOp ==
    [][(last' # NoMsg /\ response_events[last'.id] = "set")
          => /\ message_dict' = message_dict
             /\ response_events' = response_events
      ]_vars

\* C4 (concurrent calls do not interfere).  A step that handles a response
\* frame leaves the event and the stored message of every other identifier
\* as they were, and a call that returns a response returns one that names
\* its own identifier.
C4_NoInterference ==
    [][/\ last' # NoMsg
            => \A j \in Ids \ {last'.id} :
                   /\ message_dict'[j] = message_dict[j]
                   /\ response_events'[j] = response_events[j]
       /\ \A c \in Calls :
            (pc'[c] = "done" /\ ret'[c].kind = "value" /\ cid'[c] # 0)
                => ret'[c].msg.id = cid'[c]
      ]_vars

\* The second call has its response while the first, sent earlier, still
\* waits for its own.
C4_Witness ==
    /\ pc[1] = "waiting" /\ response_events[cid[1]] = "clear"
    /\ Answered(2) /\ ret[2].msg.id = cid[2]

\* C5 (no peer).  A call started while no client is connected is done in
\* that step, with success false and a message, nothing raised; it makes no
\* identifier, sends nothing, and leaves both tables as they were.
C5_NoPeerFastFail ==
    [][\A c \in Calls :
        (pc[c] = "idle" /\ pc'[c] # "idle" /\ clients = <<>>)
            => /\ pc'[c] = "done"
               /\ ~out'[c].raised /\ ~out'[c].success /\ out'[c].message # ""
               /\ nextId' = nextId /\ cid'[c] = 0
               /\ sent' = sent
               /\ response_events' = response_events
               /\ message_dict' = message_dict
      ]_vars

\* A call found no client: send_instruction returned "" and the wrapper
\* answered "No response from plugin".
C5_Witness ==
    \E c \in Calls :
        /\ pc[c] = "done" /\ ret[c] = Ret("value", "", NoMsg)
        /\ out[c] = Out(FALSE, FALSE, "", "No response from plugin")
        /\ cid[c] = 0

\* C6 (timeout cleanup).  A waiting call is done in the end; a call whose
\* instruction was sent and for whose identifier no response was ever
\* handled ends with TimeoutError and success false; and a call that ended
\* with TimeoutError has no event left in the table.
C6_TimeoutCleanup ==
    /\ \A c \in Calls : (pc[c] = "waiting") ~> (pc[c] = "done")
    /\ [](\A c \in Calls :
            /\ (pc[c] = "done" /\ cid[c] # 0 /\ ret[c].exc # "ConnectionClosed"
                    /\ message_dict[cid[c]] = NoMsg)
                  => Timeout(c)
            /\ Timeout(c)
                  => /\ response_events[cid[c]] = "absent"
                     /\ ~out[c].raised /\ ~out[c].success
                     /\ out[c].message # "")

\* A call has timed out with no response ever handled for its identifier.
C6_Witness ==
    \E c \in Calls :
        /\ Timeout(c)
        /\ message_dict[cid[c]] = NoMsg
        /\ response_events[cid[c]] = "absent"

\* C7 (late response).  A step that handles a response frame naming the
\* identifier of a call that has timed out removes no connection (nothing
\* left _handle_message), leaves every call where it stands with the
\* outcome it has, leaves the table of events as it is, and leaves the
\* stored message of every other identifier as it is.
C7_LateResponse ==
    [][(last' # NoMsg /\ \E c \in Calls : Timeout(c) /\ cid[c] = last'.id)
          => /\ clients' = clients
             /\ pc' = pc /\ ret' = ret /\ out' = out
             /\ response_events' = response_events
             /\ \A j \in Ids \ {last'.id} : message_dict'[j] = message_dict[j]
      ]_vars

\* A response for a call that timed out before any response for it was
\* handled has just been handled, while the other call waits.
C7_Witness ==
    \E c, d \in Calls :
        /\ Timeout(c) /\ last # NoMsg /\ last.id = cid[c]
        /\ pc[d] = "waiting" /\ response_events[cid[d]] = "clear"
        /\ message_dict[cid[d]] = NoMsg

\* The frames C8 is about: text that is not JSON, JSON that is no object,
\* an object without "id", an object with neither "result" nor "error".
Malformed ==
    { raw \in Inbound :
        FrameClass(raw) \in {"invalid", "array", "noid", "nopayload"} }

\* C8 (malformed input).  A step that handles a malformed frame removes no
\* connection (nothing left _handle_message), sets no event, and leaves the
\* table of events, the stored messages and every call as they were; put
\* the other way round: a step that changes any of these is not the
\* handling of a malformed frame, whichever connection delivered it.
C8_MalformedDropped ==
    [][~(/\ clients' = clients /\ handlers' = handlers
         /\ response_events' = response_events
         /\ message_dict' = message_dict
         /\ pc' = pc /\ ret' = ret /\ out' = out)
          => \A raw \in Malformed : \A p \in Peers : ~handle_message(p, raw)
      ]_vars

\* A call waits, its event not set, no message stored for it, while a
\* connection is open that delivers each kind of malformed frame: the step
\* that handles one ends in this same state.
C8_Witness ==
    /\ \E c \in Calls :
          /\ pc[c] = "waiting" /\ response_events[cid[c]] = "clear"
          /\ message_dict[cid[c]] = NoMsg
          /\ Frame("object", {"id"}, TRUE, cid[c], FALSE, "", "") \in Malformed
    /\ \A k \in {"invalid", "array", "noid", "nopayload"} :
          \E raw \in Malformed :
              /\ FrameClass(raw) = k
              /\ \E p \in Peers : ENABLED handle_message(p, raw)
    /\ last = NoMsg

C10_ErrorNormalization ==
    \A c \in Calls :
        pc[c] = "done"
            => /\ ~out[c].raised
               /\ (ret[c].kind = "raise" \/ ret[c].msg = NoMsg
                       \/ "error" \in ret[c].msg.keys)
                     => (~out[c].success /\ out[c].message # "")

\* One call ended on an exception of the send, the other on a response
\* that carries "error".
C10_Witness ==
    \E c, d \in Calls :
        /\ pc[c] = "done" /\ ret[c].exc = "ConnectionClosed"
        /\ out[c] = Out(FALSE, FALSE, "", "Error in func: ConnectionClosed")
        /\ Answered(d) /\ "error" \in ret[d].msg.keys
        /\ out[d] = Out(FALSE, FALSE, "", "e1")

\* C12 (registration precedes transmission), as the claim states it: while
\* a call whose instruction was handed to the transport is in progress, the
\* table of events holds an event for its identifier.
C12_RegisteredBeforeSent ==
    \A k \in 1..Len(sent) :
        pc[sent[k].call] \in {"sending", "waiting"}
            => response_events[sent[k].id] # "absent"

\* C13 (complete cleanup), as the claim states it: a call that is done has
\* left neither an event nor a stored message under its identifier, and
\* with no call in flight both tables are empty.
C13_CompleteCleanup ==
    /\ \A c \in Calls :
          (pc[c] = "done" /\ cid[c] # 0)
              => /\ response_events[cid[c]] = "absent"
                 /\ message_dict[cid[c]] = NoMsg
    /\ (\A c \in Calls : pc[c] \in {"idle", "done"})
          => \A i \in Ids :
                 response_events[i] = "absent" /\ message_dict[i] = NoMsg

\* C14 (unsolicited responses), as the claim states it: a step that handles
\* a response frame naming an identifier with no event in the table leaves
\* both tables as they were and removes no connection.
C14_UnsolicitedDropped ==
    [][(last' # NoMsg /\ response_events[last'.id] = "absent")
          => /\ message_dict' = message_dict
             /\ response_events' = response_events
             /\ clients' = clients
      ]_vars

\* C15 (send failure).  A call that made its identifier and is done in the
\* same step (its send raised) has raised the transport's exception out of
\* send_instruction without ever waiting; the wrapper answers success false
\* with that error; the step leaves the whole table of events as it was,
\* with no event under the call's identifier, and every other call where
\* it stood.
C15_SendFailure ==
    [][\A c \in Calls :
        (pc[c] = "idle" /\ pc'[c] = "done" /\ cid'[c] # 0)
            => /\ ret'[c] = Ret("raise", "ConnectionClosed", NoMsg)
               /\ out'[c] = Out(FALSE, FALSE, "",
                                "Error in func: ConnectionClosed")
               /\ response_events'[cid'[c]] = "absent"
               /\ response_events' = response_events
               /\ message_dict' = message_dict
               /\ sent' = sent
               /\ \A d \in Calls \ {c} :
                      pc'[d] = pc[d] /\ ret'[d] = ret[d] /\ out'[d] = out[d]
      ]_vars

\* The send of the second call raised while the first call waits, its
\* event registered and not set.
C15_Witness ==
    \E c, d \in Calls :
        /\ pc[c] = "done" /\ cid[c] # 0
        /\ ret[c] = Ret("raise", "ConnectionClosed", NoMsg)
        /\ response_events[cid[c]] = "absent"
        /\ pc[d] = "waiting" /\ response_events[cid[d]] = "clear"

\* C17 (result normalization), as the claim states it: for a returned
\* response {id, result} the wrapper answers success true with that result,
\* and for {id, error} success false with that error as the message.
C17_ResultNormalization ==
    \A c \in Calls :
        Answered(c)
            => /\ ret[c].msg.keys = {"id", "result"}
                    => /\ out[c].success
                       /\ out[c].response = ret[c].msg.result
               /\ ret[c].msg.keys = {"id", "error"}
                    => /\ ~out[c].success
                       /\ out[c].message = ret[c].msg.error

\* C20 (peer churn).  A step that opens or closes a connection leaves both
\* tables and every call as they were; a waiting call ends only by
\* returning a response that names its identifier or by TimeoutError, and
\* in that step its event leaves the table.
C20_PeerChurn ==
    [][/\ Len(clients') # Len(clients)
            => /\ response_events' = response_events
               /\ message_dict' = message_dict
               /\ pc' = pc /\ ret' = ret /\ out' = out
       /\ \A c \in Calls :
            (pc[c] = "waiting" /\ pc'[c] # "waiting")
                => /\ pc'[c] = "done"
                   /\ response_events'[cid[c]] = "absent"
                   /\ \/ ret'[c] = Ret("raise", "TimeoutError", NoMsg)
                      \/ /\ ret'[c].kind = "value"
                         /\ ret'[c].msg.id = cid[c]
                         /\ response_events[cid[c]] = "set"
      ]_vars

\* A call waits, its event registered and not set, after the connection
\* its instruction went to has closed; another connection is open.
C20_Witness ==
    \E k \in 1..Len(sent) :
        /\ pc[sent[k].call] = "waiting"
        /\ response_events[sent[k].id] = "clear"
        /\ sent[k].peer \notin Members(clients)
        /\ clients # <<>>

\* C16 (connection set).  The list of clients holds exactly the connections
\* whose handler is running, each of them once; so a connection whose
\* handler has ended is not in it.
C16_ConnectionSet ==
    /\ Members(clients) = handlers
    /\ Cardinality(Members(clients)) = Len(clients)

\* The handler of the first connection has ended after an instruction was
\* sent to it; the second connection, opened later, is the only one left.
C16_Witness ==
    /\ clients = <<2>> /\ handlers = {2}
    /\ \E k \in 1..Len(sent) : sent[k].peer = 1

\* The connection the instruction with identifier i was sent to.
Target(i) == sent[CHOOSE k \in 1..Len(sent) : sent[k].id = i].peer

\* C18 (no peer affinity).  A step in which any running connection delivers
\* a response frame naming the identifier of a waiting call stores the
\* message and sets that call's event, whether or not the connection is the
\* one the instruction was sent to.
C18_NoPeerAffinity ==
    [][\A c \in Calls :
        (pc[c] = "waiting" /\ last' # NoMsg /\ last'.id = cid[c])
            => /\ lastPeer' \in handlers
               /\ response_events'[cid[c]] = "set"
               /\ message_dict'[cid[c]] = last'
      ]_vars

\* With two connections open, the call whose instruction went to one of
\* them has its event set and its message stored by the response that the
\* other one has just delivered.
C18_Witness ==
    \E c \in Calls :
        /\ pc[c] = "waiting" /\ response_events[cid[c]] = "set"
        /\ last # NoMsg /\ last.id = cid[c] /\ message_dict[cid[c]] = last
        /\ lastPeer # 0 /\ lastPeer # Target(cid[c])
        /\ {lastPeer, Target(cid[c])} \subseteq handlers

\* C11 (tools never raise), as the claim states it: a tool invocation that
\* is done has raised nothing and has returned success true with a result
\* payload or success false with a message.
C11_ToolsNeverRaise ==
    \A c \in ToolCalls :
        (pc[c] = "done" /\ inv[c] # NoInv)
            => /\ ~out[c].raised
               /\ \/ out[c].success /\ out[c].response # ""
                  \/ ~out[c].success /\ out[c].message # ""

\* C19 (unknown action), as the claim states it: an invocation whose
\* lower-cased action is no catalog entry of its tool is done at once with
\* success false and the "Unknown ... action" message, nothing raised and
\* no frame sent; for one whose lower-cased action is a catalog entry the
\* answer is never that message, and a frame sent for it carries the action
\* name of exactly that entry.
C19_UnknownActionDispatch ==
    \A c \in ToolCalls :
        (pc[c] # "idle" /\ inv[c] # NoInv)
            => LET name == Lower(inv[c].action)
                   unknown == Out(FALSE, FALSE, "",
                                  "Unknown " \o inv[c].tool \o " action: "
                                      \o inv[c].action)
                   frames == { k \in 1..Len(sent) : sent[k].call = c }
               IN  IF name \notin DOMAIN Catalog(inv[c].tool)
                   THEN pc[c] = "done" /\ out[c] = unknown /\ frames = {}
                   ELSE /\ out[c] # unknown
                        /\ \A k \in frames :
                               sent[k].action = Catalog(inv[c].tool)[name].action

====
